---------------------------- MODULE Spec2Model ----------------------------
(***************************************************************************)
(* A model of the credential vault of src/password_manager.py.             *)
(*                                                                         *)
(* The persisted state is the three files of the data directory            *)
(* (users.json, passwords.json, activity.log); the volatile state is the   *)
(* session of a PasswordManager instance (current_user, current_key).      *)
(*                                                                         *)
(* Cryptographic primitives are modelled symbolically:                     *)
(*   - a PBKDF2 key is the pair (password, salt) it was derived from;      *)
(*   - a bcrypt hash is the pair (password, bcrypt salt);                  *)
(*   - an AES-GCM ciphertext is the triple (key, nonce, plaintext) plus a  *)
(*     flag telling whether its bytes (tag included) are intact;           *)
(*   - os.urandom / bcrypt.gensalt never return the same value twice: the  *)
(*     n-th draw of the process is the number n.                           *)
(* Every handler is an operator from the state it sees to the state it     *)
(* leaves and the value it returns, so that handlers can be composed.      *)
(***************************************************************************)
EXTENDS Naturals, Integers, Sequences, FiniteSets, TLC

VARIABLES
    users,          \* users.json     : username -> auth record
    passwords,      \* passwords.json : username -> domain -> entry
    log,            \* activity.log   : sequence of lines
    rnd,            \* number of values drawn so far from the OS randomness
    now,            \* the wall clock
    current_user,   \* per instance: self.current_user
    current_key,    \* per instance: self.current_key
    pc,             \* per instance: where the instance is inside a handler
    pend            \* per instance: locals of a rotation between its writes

vars == <<users, passwords, log, rnd, now, current_user, current_key, pc, pend>>

---------------------------------------------------------------------------
(* Bounds of the model *)

MaxLog == 5         \* lines the activity log may reach
MaxTime == 1        \* ticks of the clock
MaxLength == 13     \* greatest length asked of generate_password

---------------------------------------------------------------------------
(* Values *)

None == "<None>"            \* Python's None where a string may stand
NoTime == 99                \* Python's None where a timestamp may stand
NoKey == [pw |-> None, salt |-> 0]   \* self.current_key = None

Inst == {1}                 \* PasswordManager instances of the run
Inst2 == {1, 2}             \* two instances on one data directory

\* What the callers type in
UserNames == {"admin", "nobody"}
MasterPasswords == {"Admin@2024", "New@2025"}
Domains == {"a.com", "x.com"}
DomSeq == <<"a.com", "x.com">>                      \* Domains, enumerated
\* add_password(domain, password, username, notes)
AddCalls == {<<"a.com", "pw1", "bob", "work">>,
             <<"a.com", None, None, None>>,
             <<"x.com", "pw2", None, "home">>}
\* update_password(domain, new_password)
UpdateCalls == {<<"a.com", "pw2">>, <<"x.com", None>>}
Generated == {"gen16chars"}                         \* outcomes of generate_password(16)

\* generate_password(length, use_uppercase, use_lowercase, use_digits,
\* use_special): a character is represented by the class it belongs to, the
\* four flags by the set of the classes they enable
Classes == {"upper", "lower", "digit", "special"}
FlagSets == SUBSET Classes
Lengths == (0 - 1)..MaxLength
MinLength == 12

\* Two accounts of the store, each with the master password of its owner
Logins == {<<"admin", "Admin@2024">>, <<"testuser", "Test@2024">>}

EmptyMap == [x \in {} |-> 0]

\* What a data file holds when json.load rejects it (cut short, overwritten
\* with something else) or when the file is gone
Unparseable == [x \in {"<unparseable>"} |-> EmptyMap]
Put(f, k, v) == [x \in (DOMAIN f) \cup {k} |-> IF x = k THEN v ELSE f[x]]
Drop(f, k) == [x \in (DOMAIN f) \ {k} |-> f[x]]
Field(e, f) == IF f \in DOMAIN e THEN e[f] ELSE IF f \in {"created_at", "updated_at"} THEN NoTime ELSE None

---------------------------------------------------------------------------
(* Primitives *)

_hash_password(password, bsalt) == [pw |-> password, bsalt |-> bsalt]

_verify_password(password, hashed) == hashed.pw = password

_derive_key(password, salt) == [pw |-> password, salt |-> salt]

\* base64.b64encode / base64.b64decode: the encoding of x is not x
b64encode(x) == [b64 |-> x]
b64decode(y) == y.b64

\* AESGCM(key).encrypt(nonce, data, None): ciphertext with its tag
AESGCM_encrypt(key, nonce, data) == [k |-> key, n |-> nonce, p |-> data, intact |-> TRUE]

\* AESGCM(key).decrypt(nonce, data, None); ok = FALSE is the InvalidTag exception
AESGCM_decrypt(key, nonce, data) ==
    IF data.intact /\ data.k = key /\ data.n = nonce
    THEN [ok |-> TRUE, p |-> data.p]
    ELSE [ok |-> FALSE, p |-> None]

\* nonce is the value os.urandom(12) returned
_encrypt_password(password, key, nonce) ==
    [encrypted_data |-> b64encode(AESGCM_encrypt(key, nonce, password)),
     nonce |-> b64encode(nonce)]

_decrypt_password(encrypted_data, nonce, key) ==
    AESGCM_decrypt(key, b64decode(nonce), b64decode(encrypted_data))

\* Lines 210-214: the dictionary of a JSON file, {} when it cannot be read
_read_json(file) == IF "<unparseable>" \in DOMAIN file THEN EmptyMap ELSE file

\* _log_activity opening activity.log for writing instead of appending
_log_activity_rewrite(s, username, action) ==
    [s EXCEPT !.log = <<[timestamp |-> s.now, username |-> username,
                         action |-> action]>>]

_log_activity(s, username, action) ==
    [s EXCEPT !.log = Append(@, [timestamp |-> s.now, username |-> username,
                                 action |-> action])]

\* Lines 365-366 of generate_password, unchanged
enforced_length_any(length) == length

\* Lines 365-366 of generate_password: the length in force
enforced_length(length) == IF length < MinLength THEN MinLength ELSE length

\* A pool holding characters of all four classes whatever the flags
chars_every_class(flags) == Classes

\* Lines 369-382: the classes of the characters of the pool `chars`; with no
\* class enabled the pool is letters, digits and fourteen special characters
chars(flags) == IF flags = {} THEN Classes ELSE flags

\* Lines 385-394: the list `password` after one character of each enabled
\* class, as the number of its characters of each class
required(flags) == [c \in Classes |-> IF c \in flags THEN 1 ELSE 0]

\* len(password)
Size(password) ==
    password["upper"] + password["lower"] + password["digit"] + password["special"]

\* What a handler yields: the state it leaves, what it returns ("True", "False",
\* "None", "value", or "raise" for an exception that reaches the caller) and,
\* for "value", the value.
Out(s, r, v) == [s |-> s, ret |-> r, val |-> v]

---------------------------------------------------------------------------
(* Handlers.  s is the state a handler of one instance sees:               *)
(* [users, passwords, log, rnd, now, user, key].                           *)

\* authenticate ending the session when the password does not verify
authenticate_fail_ends_session(s, username, password) ==
    IF username \notin DOMAIN s.users
    THEN Out(_log_activity(s, username, <<"Failed login attempt - user not found">>), "False", <<>>)
    ELSE IF ~_verify_password(password, s.users[username].password_hash)
    THEN Out(_log_activity([s EXCEPT !.user = None, !.key = NoKey],
                           username, <<"Failed login attempt - incorrect password">>), "False", <<>>)
    ELSE LET s1 == [s EXCEPT !.user = username,
                             !.key = _derive_key(password, b64decode(s.users[username].salt)),
                             !.users[username].last_login = s.now]
         IN Out(_log_activity(s1, username, <<"Successful login">>), "True", <<>>)

\* authenticate deriving the key from one fixed salt, not from the stored one
authenticate_first_salt(s, username, password) ==
    IF username \notin DOMAIN s.users
    THEN Out(_log_activity(s, username, <<"Failed login attempt - user not found">>), "False", <<>>)
    ELSE IF ~_verify_password(password, s.users[username].password_hash)
    THEN Out(_log_activity(s, username, <<"Failed login attempt - incorrect password">>), "False", <<>>)
    ELSE LET s1 == [s EXCEPT !.user = username,
                             !.key = _derive_key(password, 2),
                             !.users[username].last_login = s.now]
         IN Out(_log_activity(s1, username, <<"Successful login">>), "True", <<>>)

\* authenticate deriving a key only when the instance holds none
authenticate_keep_key(s, username, password) ==
    IF username \notin DOMAIN s.users
    THEN Out(_log_activity(s, username, <<"Failed login attempt - user not found">>), "False", <<>>)
    ELSE IF ~_verify_password(password, s.users[username].password_hash)
    THEN Out(_log_activity(s, username, <<"Failed login attempt - incorrect password">>), "False", <<>>)
    ELSE LET s1 == [s EXCEPT !.user = username,
                             !.key = IF s.key # NoKey
                                     THEN s.key
                                     ELSE _derive_key(password, b64decode(s.users[username].salt)),
                             !.users[username].last_login = s.now]
         IN Out(_log_activity(s1, username, <<"Successful login">>), "True", <<>>)

authenticate(s, username, password) ==
    IF username \notin DOMAIN s.users
    THEN Out(_log_activity(s, username, <<"Failed login attempt - user not found">>), "False", <<>>)
    ELSE IF ~_verify_password(password, s.users[username].password_hash)
    THEN Out(_log_activity(s, username, <<"Failed login attempt - incorrect password">>), "False", <<>>)
    ELSE LET s1 == [s EXCEPT !.user = username,
                             !.key = _derive_key(password, b64decode(s.users[username].salt)),
                             !.users[username].last_login = s.now]
         IN Out(_log_activity(s1, username, <<"Successful login">>), "True", <<>>)

\* logout that forgets the user and keeps the derived key
logout_keep_key(s) ==
    LET s1 == IF s.user # None THEN _log_activity(s, s.user, <<"Logged out">>) ELSE s
    IN Out([s1 EXCEPT !.user = None], "None", <<>>)

logout(s) ==
    LET s1 == IF s.user # None THEN _log_activity(s, s.user, <<"Logged out">>) ELSE s
    IN Out([s1 EXCEPT !.user = None, !.key = NoKey], "None", <<>>)

\* add_password without the session check of line 418
add_password_unchecked(s, domain, password, username, notes, gen) ==
    LET pw == IF password = None THEN gen ELSE password
        enc == _encrypt_password(pw, s.key, s.rnd + 1)
        mine == IF s.user \in DOMAIN s.passwords THEN s.passwords[s.user] ELSE EmptyMap
        entry == [encrypted_data |-> enc.encrypted_data,
                  nonce |-> enc.nonce,
                  username |-> username,
                  notes |-> notes,
                  created_at |-> s.now,
                  updated_at |-> s.now]
        s1 == [s EXCEPT !.rnd = @ + 1,
                        !.passwords = Put(@, s.user, Put(mine, domain, entry))]
    IN Out(_log_activity(s1, s.user, <<"Added password for domain", domain>>), "True", <<>>)

add_password(s, domain, password, username, notes, gen) ==
    IF s.user = None \/ s.key = NoKey
    THEN Out(s, "False", <<>>)
    ELSE LET pw == IF password = None THEN gen ELSE password
             enc == _encrypt_password(pw, s.key, s.rnd + 1)
             mine == IF s.user \in DOMAIN s.passwords THEN s.passwords[s.user] ELSE EmptyMap
             entry == [encrypted_data |-> enc.encrypted_data,
                       nonce |-> enc.nonce,
                       username |-> username,
                       notes |-> notes,
                       created_at |-> s.now,
                       updated_at |-> s.now]
             s1 == [s EXCEPT !.rnd = @ + 1,
                             !.passwords = Put(@, s.user, Put(mine, domain, entry))]
         IN Out(_log_activity(s1, s.user, <<"Added password for domain", domain>>), "True", <<>>)

\* Lines 418-443 of add_password: everything before the write.  "go" with
\* the dictionary the handler holds in memory when it reaches line 446.
add_password_read(s, domain, password, username, notes, gen) ==
    IF s.user = None \/ s.key = NoKey
    THEN Out(s, "False", <<>>)
    ELSE LET pw == IF password = None THEN gen ELSE password
             enc == _encrypt_password(pw, s.key, s.rnd + 1)
             mine == IF s.user \in DOMAIN s.passwords THEN s.passwords[s.user] ELSE EmptyMap
             entry == [encrypted_data |-> enc.encrypted_data,
                       nonce |-> enc.nonce,
                       username |-> username,
                       notes |-> notes,
                       created_at |-> s.now,
                       updated_at |-> s.now]
         IN Out([s EXCEPT !.rnd = @ + 1], "go",
                <<[passwords |-> Put(s.passwords, s.user, Put(mine, domain, entry)),
                   domain |-> domain]>>)

\* A write that reads the file again and puts only its own entry into it
add_password_write_merge(s, held) ==
    LET mine == IF s.user \in DOMAIN s.passwords THEN s.passwords[s.user] ELSE EmptyMap
        s1 == [s EXCEPT !.passwords =
                  Put(@, s.user, Put(mine, held.domain, held.passwords[s.user][held.domain]))]
    IN Out(_log_activity(s1, s.user, <<"Added password for domain", held.domain>>), "True", <<>>)

\* Lines 446-449 of add_password: the dictionary in memory replaces the file.
add_password_write(s, held) ==
    LET s1 == [s EXCEPT !.passwords = held.passwords]
    IN Out(_log_activity(s1, s.user, <<"Added password for domain", held.domain>>), "True", <<>>)

\* get_password without the try/except of lines 475-493
get_password_uncaught(s, domain) ==
    IF s.user = None \/ s.key = NoKey
    THEN Out(s, "None", <<>>)
    ELSE IF s.user \notin DOMAIN s.passwords
    THEN Out(s, "None", <<>>)
    ELSE IF domain \notin DOMAIN s.passwords[s.user]
    THEN Out(s, "None", <<>>)
    ELSE LET pwd_data == s.passwords[s.user][domain]
             dec == _decrypt_password(pwd_data.encrypted_data, pwd_data.nonce, s.key)
         IN IF dec.ok
            THEN Out(_log_activity(s, s.user, <<"Retrieved password for domain", domain>>),
                     "value",
                     <<[password |-> dec.p,
                        username |-> Field(pwd_data, "username"),
                        notes |-> Field(pwd_data, "notes"),
                        created_at |-> Field(pwd_data, "created_at"),
                        updated_at |-> Field(pwd_data, "updated_at")]>>)
            ELSE Out(s, "raise", <<>>)

get_password(s, domain) ==
    IF s.user = None \/ s.key = NoKey
    THEN Out(s, "None", <<>>)
    ELSE IF s.user \notin DOMAIN s.passwords
    THEN Out(s, "None", <<>>)
    ELSE IF domain \notin DOMAIN s.passwords[s.user]
    THEN Out(s, "None", <<>>)
    ELSE LET pwd_data == s.passwords[s.user][domain]
             dec == _decrypt_password(pwd_data.encrypted_data, pwd_data.nonce, s.key)
         IN IF dec.ok
            THEN Out(_log_activity(s, s.user, <<"Retrieved password for domain", domain>>),
                     "value",
                     <<[password |-> dec.p,
                        username |-> Field(pwd_data, "username"),
                        notes |-> Field(pwd_data, "notes"),
                        created_at |-> Field(pwd_data, "created_at"),
                        updated_at |-> Field(pwd_data, "updated_at")]>>)
            ELSE Out(_log_activity(s, s.user, <<"Failed to decrypt password for", domain>>),
                     "None", <<>>)

\* get_all_domains listing only the domains whose entry decrypts
get_all_domains_readable(s) ==
    IF s.user = None
    THEN Out(s, "value", {})
    ELSE IF s.user \notin DOMAIN s.passwords
    THEN Out(s, "value", {})
    ELSE Out(s, "value",
             {d \in DOMAIN s.passwords[s.user] :
                 _decrypt_password(s.passwords[s.user][d].encrypted_data,
                                   s.passwords[s.user][d].nonce, s.key).ok})

get_all_domains(s) ==
    IF s.user = None
    THEN Out(s, "value", {})
    ELSE IF s.user \notin DOMAIN s.passwords
    THEN Out(s, "value", {})
    ELSE Out(s, "value", DOMAIN s.passwords[s.user])

\* update_password encrypting under the nonce already stored with the entry
update_password_same_nonce(s, domain, new_password, gen) ==
    IF s.user = None \/ s.key = NoKey
    THEN Out(s, "False", <<>>)
    ELSE IF s.user \notin DOMAIN s.passwords \/ domain \notin DOMAIN s.passwords[s.user]
    THEN Out(s, "False", <<>>)
    ELSE LET pw == IF new_password = None THEN gen ELSE new_password
             enc == _encrypt_password(pw, s.key, b64decode(s.passwords[s.user][domain].nonce))
             s1 == [s EXCEPT !.passwords[s.user][domain].encrypted_data = enc.encrypted_data,
                             !.passwords[s.user][domain].nonce = enc.nonce,
                             !.passwords[s.user][domain].updated_at = s.now]
         IN Out(_log_activity(s1, s.user, <<"Updated password for domain", domain>>), "True", <<>>)

\* update_password creating the entry when the domain is not stored
update_password_upsert(s, domain, new_password, gen) ==
    IF s.user = None \/ s.key = NoKey
    THEN Out(s, "False", <<>>)
    ELSE LET pw == IF new_password = None THEN gen ELSE new_password
             enc == _encrypt_password(pw, s.key, s.rnd + 1)
             mine == IF s.user \in DOMAIN s.passwords THEN s.passwords[s.user] ELSE EmptyMap
             old == IF domain \in DOMAIN mine THEN mine[domain] ELSE [created_at |-> s.now]
             entry == [x \in DOMAIN old \cup {"encrypted_data", "nonce", "updated_at"} |->
                          CASE x = "encrypted_data" -> enc.encrypted_data
                            [] x = "nonce" -> enc.nonce
                            [] x = "updated_at" -> s.now
                            [] OTHER -> old[x]]
             s1 == [s EXCEPT !.rnd = @ + 1,
                             !.passwords = Put(@, s.user, Put(mine, domain, entry))]
         IN Out(_log_activity(s1, s.user, <<"Updated password for domain", domain>>), "True", <<>>)

\* update_password storing a new entry instead of changing three fields
update_password_new_entry(s, domain, new_password, gen) ==
    IF s.user = None \/ s.key = NoKey
    THEN Out(s, "False", <<>>)
    ELSE IF s.user \notin DOMAIN s.passwords \/ domain \notin DOMAIN s.passwords[s.user]
    THEN Out(s, "False", <<>>)
    ELSE LET pw == IF new_password = None THEN gen ELSE new_password
             enc == _encrypt_password(pw, s.key, s.rnd + 1)
             s1 == [s EXCEPT !.rnd = @ + 1,
                             !.passwords[s.user][domain] =
                                 [encrypted_data |-> enc.encrypted_data,
                                  nonce |-> enc.nonce,
                                  username |-> Field(@, "username"),
                                  notes |-> Field(@, "notes"),
                                  created_at |-> s.now,
                                  updated_at |-> s.now]]
         IN Out(_log_activity(s1, s.user, <<"Updated password for domain", domain>>), "True", <<>>)

update_password(s, domain, new_password, gen) ==
    IF s.user = None \/ s.key = NoKey
    THEN Out(s, "False", <<>>)
    ELSE IF s.user \notin DOMAIN s.passwords \/ domain \notin DOMAIN s.passwords[s.user]
    THEN Out(s, "False", <<>>)
    ELSE LET pw == IF new_password = None THEN gen ELSE new_password
             enc == _encrypt_password(pw, s.key, s.rnd + 1)
             s1 == [s EXCEPT !.rnd = @ + 1,
                             !.passwords[s.user][domain].encrypted_data = enc.encrypted_data,
                             !.passwords[s.user][domain].nonce = enc.nonce,
                             !.passwords[s.user][domain].updated_at = s.now]
         IN Out(_log_activity(s1, s.user, <<"Updated password for domain", domain>>), "True", <<>>)

\* delete_password that reports success and keeps the entry
delete_password_keep(s, domain) ==
    IF s.user = None
    THEN Out(s, "False", <<>>)
    ELSE IF s.user \notin DOMAIN s.passwords \/ domain \notin DOMAIN s.passwords[s.user]
    THEN Out(s, "False", <<>>)
    ELSE Out(_log_activity(s, s.user, <<"Deleted password for domain", domain>>), "True", <<>>)

\* delete_password dropping every entry of the user
delete_password_all(s, domain) ==
    IF s.user = None
    THEN Out(s, "False", <<>>)
    ELSE IF s.user \notin DOMAIN s.passwords \/ domain \notin DOMAIN s.passwords[s.user]
    THEN Out(s, "False", <<>>)
    ELSE LET s1 == [s EXCEPT !.passwords[s.user] = EmptyMap]
         IN Out(_log_activity(s1, s.user, <<"Deleted password for domain", domain>>), "True", <<>>)

delete_password(s, domain) ==
    IF s.user = None
    THEN Out(s, "False", <<>>)
    ELSE IF s.user \notin DOMAIN s.passwords \/ domain \notin DOMAIN s.passwords[s.user]
    THEN Out(s, "False", <<>>)
    ELSE LET s1 == [s EXCEPT !.passwords[s.user] = Drop(@, domain)]
         IN Out(_log_activity(s1, s.user, <<"Deleted password for domain", domain>>), "True", <<>>)

\* Lines 584-591: the lines of activity.log, sliced as Python slices
\* logs[-limit:]: from index -limit when that is negative (counted from the
\* end, not before the first line), from index -limit otherwise.
get_activity_logs(s, limit) ==
    LET n == Len(s.log)
        start == IF 0 - limit < 0
                 THEN (IF n - limit > 0 THEN n - limit ELSE 0)
                 ELSE (IF 0 - limit < n THEN 0 - limit ELSE n)
    IN Out(s, "value", SubSeq(s.log, start + 1, n))

\* The position of a stored domain among the stored domains, by which the
\* re-encryption loop hands out its nonces.
Rank(stored, d) ==
    Cardinality({j \in 1..Len(DomSeq) :
                    /\ DomSeq[j] \in stored
                    /\ \E m \in j..Len(DomSeq) : DomSeq[m] = d})

\* Lines 303-313: the user's entries, decrypted under the session key.
decrypted_passwords(s) ==
    LET user_passwords == IF s.user \in DOMAIN s.passwords THEN s.passwords[s.user] ELSE EmptyMap
    IN [d \in DOMAIN user_passwords |->
           _decrypt_password(user_passwords[d].encrypted_data, user_passwords[d].nonce, s.key)]

\* rotation_plan writing a store that holds the session user's entries only
rotation_plan_own_only(s, new_password) ==
    LET plain == decrypted_passwords(s)
        new_salt == s.rnd + 1
        new_hash == _hash_password(new_password, s.rnd + 2)
        new_key == _derive_key(new_password, new_salt)
        re_encrypted ==
            [d \in DOMAIN plain |->
                LET enc == _encrypt_password(plain[d].p, new_key, s.rnd + 2 + Rank(DOMAIN plain, d))
                IN [encrypted_data |-> enc.encrypted_data,
                    nonce |-> enc.nonce,
                    updated_at |-> s.now]]
    IN [users |-> [s.users EXCEPT ![s.user].password_hash = new_hash,
                                  ![s.user].salt = b64encode(new_salt)],
        passwords |-> Put(EmptyMap, s.user, re_encrypted),
        new_key |-> new_key,
        rnd |-> s.rnd + 2 + Cardinality(DOMAIN plain)]

\* rotation_plan replacing the password hash and keeping the stored salt
rotation_plan_keep_salt(s, new_password) ==
    LET plain == decrypted_passwords(s)
        new_hash == _hash_password(new_password, s.rnd + 2)
        new_key == _derive_key(new_password, b64decode(s.users[s.user].salt))
        re_encrypted ==
            [d \in DOMAIN plain |->
                LET enc == _encrypt_password(plain[d].p, new_key, s.rnd + 2 + Rank(DOMAIN plain, d))
                IN [encrypted_data |-> enc.encrypted_data,
                    nonce |-> enc.nonce,
                    updated_at |-> s.now]]
    IN [users |-> [s.users EXCEPT ![s.user].password_hash = new_hash],
        passwords |-> Put(s.passwords, s.user, re_encrypted),
        new_key |-> new_key,
        rnd |-> s.rnd + 2 + Cardinality(DOMAIN plain)]

\* rotation_plan re-encrypting under the session key instead of the new key
rotation_plan_old_key(s, new_password) ==
    LET plain == decrypted_passwords(s)
        new_salt == s.rnd + 1
        new_hash == _hash_password(new_password, s.rnd + 2)
        new_key == _derive_key(new_password, new_salt)
        re_encrypted ==
            [d \in DOMAIN plain |->
                LET enc == _encrypt_password(plain[d].p, s.key, s.rnd + 2 + Rank(DOMAIN plain, d))
                IN [encrypted_data |-> enc.encrypted_data,
                    nonce |-> enc.nonce,
                    updated_at |-> s.now]]
    IN [users |-> [s.users EXCEPT ![s.user].password_hash = new_hash,
                                  ![s.user].salt = b64encode(new_salt)],
        passwords |-> Put(s.passwords, s.user, re_encrypted),
        new_key |-> new_key,
        rnd |-> s.rnd + 2 + Cardinality(DOMAIN plain)]

\* Lines 315-330 and the two dictionaries the handler then holds in memory.
rotation_plan(s, new_password) ==
    LET plain == decrypted_passwords(s)
        new_salt == s.rnd + 1
        new_hash == _hash_password(new_password, s.rnd + 2)
        new_key == _derive_key(new_password, new_salt)
        re_encrypted ==
            [d \in DOMAIN plain |->
                LET enc == _encrypt_password(plain[d].p, new_key, s.rnd + 2 + Rank(DOMAIN plain, d))
                IN [encrypted_data |-> enc.encrypted_data,
                    nonce |-> enc.nonce,
                    updated_at |-> s.now]]
    IN [users |-> [s.users EXCEPT ![s.user].password_hash = new_hash,
                                  ![s.user].salt = b64encode(new_salt)],
        passwords |-> Put(s.passwords, s.user, re_encrypted),
        new_key |-> new_key,
        rnd |-> s.rnd + 2 + Cardinality(DOMAIN plain)]

\* Line 335 left out: users.json keeps the old hash and salt
rotation_write_users_skip(s, plan) ==
    [s EXCEPT !.rnd = plan.rnd]

\* Line 335: self._write_json(self.users_file, users)
rotation_write_users(s, plan) ==
    [s EXCEPT !.users = plan.users, !.rnd = plan.rnd]

\* Lines 339-344 without line 342: the session keeps the old key
rotation_write_passwords_stale_key(s, plan) ==
    _log_activity([s EXCEPT !.passwords = plan.passwords],
                  s.user, <<"Master password changed successfully">>)

\* Lines 339-344
rotation_write_passwords(s, plan) ==
    _log_activity([s EXCEPT !.passwords = plan.passwords, !.key = plan.new_key],
                  s.user, <<"Master password changed successfully">>)

\* rotation_check without the verification of the old password (lines 298-301)
rotation_check_no_verify(s, old_password) ==
    IF s.user = None
    THEN Out(s, "False", <<>>)
    ELSE IF s.user \notin DOMAIN s.users
    THEN Out(s, "raise", <<>>)
    ELSE IF \E d \in DOMAIN decrypted_passwords(s) : ~decrypted_passwords(s)[d].ok
    THEN Out(s, "raise", <<>>)
    ELSE Out(s, "go", <<>>)

\* rotation_check that does not stop at an entry that fails to decrypt
rotation_check_no_decrypt(s, old_password) ==
    IF s.user = None
    THEN Out(s, "False", <<>>)
    ELSE IF s.user \notin DOMAIN s.users
    THEN Out(s, "raise", <<>>)
    ELSE IF ~_verify_password(old_password, s.users[s.user].password_hash)
    THEN Out(_log_activity(s, s.user, <<"Failed password change - incorrect old password">>),
             "False", <<>>)
    ELSE Out(s, "go", <<>>)

\* What change_master_password does before its first write: "go" when it
\* reaches line 315.
rotation_check(s, old_password) ==
    IF s.user = None
    THEN Out(s, "False", <<>>)
    ELSE IF s.user \notin DOMAIN s.users
    THEN Out(s, "raise", <<>>)
    ELSE IF ~_verify_password(old_password, s.users[s.user].password_hash)
    THEN Out(_log_activity(s, s.user, <<"Failed password change - incorrect old password">>),
             "False", <<>>)
    ELSE IF \E d \in DOMAIN decrypted_passwords(s) : ~decrypted_passwords(s)[d].ok
    THEN Out(s, "raise", <<>>)
    ELSE Out(s, "go", <<>>)

change_master_password(s, old_password, new_password) ==
    LET chk == rotation_check(s, old_password)
    IN IF chk.ret # "go"
       THEN chk
       ELSE LET plan == rotation_plan(s, new_password)
            IN Out(rotation_write_passwords(rotation_write_users(s, plan), plan), "True", <<>>)

---------------------------------------------------------------------------
(* The console, src/cli_interface.py.  Its handlers read their arguments   *)
(* from the terminal and call the handlers of the PasswordManager they own. *)

\* Line 66 of login
max_attempts == 3

\* What is typed at the prompts for a new master password
TypedPasswords == MasterPasswords \cup {"short"}
Confirmations == {"yes", "no"}

\* login that enters the menu when the attempts are used up
login_pass_then_menu(ret, attempts) ==
    IF ret = "True"
    THEN [pc |-> "line303", attempts |-> attempts]
    ELSE IF max_attempts - (attempts + 1) > 0
    THEN [pc |-> "line69", attempts |-> attempts + 1]
    ELSE [pc |-> "line303", attempts |-> attempts + 1]

\* Lines 73-84 of login and 298-303 of run: where the console stands after
\* a pass of the loop in which authenticate returned ret, attempts passes
\* having failed before it.  True is returned to run, which enters the
\* menu loop (line 303); False is returned by line 84, and run returns
\* (line 300).  Line 86 is never reached: the pass that makes attempts
\* equal to max_attempts returns at line 84.
login_pass(ret, attempts) ==
    IF ret = "True"
    THEN [pc |-> "line303", attempts |-> attempts]
    ELSE IF max_attempts - (attempts + 1) > 0
    THEN [pc |-> "line69", attempts |-> attempts + 1]
    ELSE [pc |-> "line300", attempts |-> attempts + 1]

\* Lines 106-107: get_password for each listed domain in turn (in the order
\* of DomSeq), from the j-th on.
RECURSIVE view_passwords_loop(_, _, _)
view_passwords_loop(s, domains, j) ==
    IF j > Len(DomSeq)
    THEN s
    ELSE view_passwords_loop(IF DomSeq[j] \in domains THEN get_password(s, DomSeq[j]).s ELSE s,
                             domains, j + 1)

\* Lines 93-117
cli_view_passwords(s) ==
    LET domains == get_all_domains(s).val
    IN IF domains = {} THEN s ELSE view_passwords_loop(s, domains, 1)

\* Lines 127-163: password = None stands for the choice of a generated
\* password, gen for what generate_password(16) returns.
cli_add_password(s, domain, password, username, notes, gen) ==
    IF domain = ""
    THEN s
    ELSE IF domain \in get_all_domains(s).val
    THEN s
    ELSE add_password(s, domain, IF password = None THEN gen ELSE password,
                      username, notes, None).s

\* Lines 170-207
cli_update_password(s, domain, new_password, gen) ==
    LET domains == get_all_domains(s).val
    IN IF domains = {}
       THEN s
       ELSE IF domain \notin domains
       THEN s
       ELSE update_password(s, domain, IF new_password = None THEN gen ELSE new_password,
                            None).s

\* Lines 214-244
cli_delete_password(s, domain, confirm) ==
    LET domains == get_all_domains(s).val
    IN IF domains = {}
       THEN s
       ELSE IF domain \notin domains
       THEN s
       ELSE IF confirm = "yes"
       THEN delete_password(s, domain).s
       ELSE s

\* Lines 251-275
cli_change_master_password(s, old_password, new_password, confirm_password) ==
    IF new_password # confirm_password
    THEN s
    ELSE IF Len(new_password) < 8
    THEN s
    ELSE change_master_password(s, old_password, new_password).s

\* Lines 282-293
cli_view_logs(s) == get_activity_logs(s, 50).s

---------------------------------------------------------------------------
(* The state an instance sees, and the state it leaves *)

View(i) == [users |-> _read_json(users), passwords |-> _read_json(passwords), log |-> log, rnd |-> rnd,
            now |-> now, user |-> current_user[i], key |-> current_key[i]]

\* The run stays inside the bounds of the model.
InBounds(s) == Len(s.log) <= MaxLog

\* A handler calls _write_json on a file exactly when it has changed the
\* dictionary it read from it (or writes back what it read).
Store(i, s) ==
    /\ users' = IF s.users = _read_json(users) THEN users ELSE s.users
    /\ passwords' = IF s.passwords = _read_json(passwords) THEN passwords ELSE s.passwords
    /\ log' = s.log
    /\ rnd' = s.rnd
    /\ current_user' = [current_user EXCEPT ![i] = s.user]
    /\ current_key' = [current_key EXCEPT ![i] = s.key]
    /\ UNCHANGED now

Leave(i, s) == InBounds(s) /\ Store(i, s)

\* The run of the console stays inside bounds that leave room for more
\* passes of the login loop than max_attempts.
InBoundsCLI(s) == Len(s.log) <= MaxLog + 2

LeaveCLI(i, s) == InBoundsCLI(s) /\ Store(i, s)

Idle(i) == pc[i] = "idle"

---------------------------------------------------------------------------
(* Initial state: a fresh data directory, lines 57-100 and 53-55.  The log *)
(* holds two lines: the first _log_activity creates activity.log, so the   *)
(* test of line 98 finds the file and the third line is not written.       *)

InitUsers ==
    [u \in {"admin", "testuser", "demo"} |->
        LET k == CASE u = "admin" -> 0 [] u = "testuser" -> 2 [] OTHER -> 4
            p == CASE u = "admin" -> "Admin@2024" [] u = "testuser" -> "Test@2024" [] OTHER -> "Demo@2024"
        IN [password_hash |-> _hash_password(p, k + 1),
            salt |-> b64encode(k + 2),
            created_at |-> 0,
            last_login |-> NoTime]]

InitLog ==
    <<[timestamp |-> 0, username |-> "SYSTEM", action |-> <<"Initialized users database with test accounts">>],
      [timestamp |-> 0, username |-> "SYSTEM", action |-> <<"Initialized passwords database">>]>>

Init ==
    /\ users = InitUsers
    /\ passwords = EmptyMap
    /\ log = InitLog
    /\ rnd = 6
    /\ now = 0
    /\ current_user = [i \in Inst |-> None]
    /\ current_key = [i \in Inst |-> NoKey]
    /\ pc = [i \in Inst |-> "idle"]
    /\ pend = [i \in Inst |-> <<>>]

---------------------------------------------------------------------------
(* Actions: one call of a handler by instance i *)

Authenticate(i) ==
    \E username \in UserNames, password \in MasterPasswords :
        LET o == authenticate(View(i), username, password)
        IN Idle(i) /\ Leave(i, o.s)
           /\ UNCHANGED <<pc, pend>>

Logout(i) ==
    LET o == logout(View(i))
    IN Idle(i) /\ Leave(i, o.s) /\ UNCHANGED <<pc, pend>>

AddPassword(i) ==
    \E a \in AddCalls :
        \E gen \in (IF a[2] = None THEN Generated ELSE {None}) :
            LET o == add_password(View(i), a[1], a[2], a[3], a[4], gen)
            IN Idle(i) /\ Leave(i, o.s)
              
               /\ UNCHANGED <<pc, pend>>

GetPassword(i) ==
    \E domain \in Domains :
        LET o == get_password(View(i), domain)
        IN Idle(i) /\ Leave(i, o.s)
           /\ UNCHANGED <<pc, pend>>

GetAllDomains(i) ==
    LET o == get_all_domains(View(i))
    IN Idle(i) /\ Leave(i, o.s)
       /\ UNCHANGED <<pc, pend>>

UpdatePassword(i) ==
    \E a \in UpdateCalls :
        \E gen \in (IF a[2] = None THEN Generated ELSE {None}) :
            LET o == update_password(View(i), a[1], a[2], gen)
            IN Idle(i) /\ Leave(i, o.s)
              
               /\ UNCHANGED <<pc, pend>>

DeletePassword(i) ==
    \E domain \in Domains :
        LET o == delete_password(View(i), domain)
        IN Idle(i) /\ Leave(i, o.s)
           /\ UNCHANGED <<pc, pend>>

ChangeMasterPassword(i) ==
    \E old_password \in MasterPasswords, new_password \in MasterPasswords :
        LET o == change_master_password(View(i), old_password, new_password)
        IN Idle(i) /\ Leave(i, o.s)
          
           /\ UNCHANGED <<pc, pend>>

\* Between line 335 and line 339 of change_master_password: users.json is
\* written, passwords.json is not yet.
RotateBegin(i) ==
    \E old_password \in MasterPasswords, new_password \in MasterPasswords :
        LET s == View(i)
            chk == rotation_check(s, old_password)
            plan == rotation_plan(s, new_password)
        IN /\ Idle(i)
           /\ IF chk.ret # "go"
              THEN Leave(i, chk.s) /\ UNCHANGED <<pc, pend>>
              ELSE /\ Leave(i, rotation_write_users(s, plan))
                   /\ pc' = [pc EXCEPT ![i] = "line337"]
                   /\ pend' = [pend EXCEPT ![i] = plan]

RotateEnd(i) ==
    /\ pc[i] = "line337"
    /\ Leave(i, rotation_write_passwords(View(i), pend[i]))
    /\ pc' = [pc EXCEPT ![i] = "idle"]
    /\ pend' = [pend EXCEPT ![i] = <<>>]

\* The process of instance i dies inside change_master_password and is
\* started again on the same data directory: __init__ finds the three files
\* and writes nothing.
Crash(i) ==
    /\ pc[i] = "line337"
    /\ current_user' = [current_user EXCEPT ![i] = None]
    /\ current_key' = [current_key EXCEPT ![i] = NoKey]
    /\ pc' = [pc EXCEPT ![i] = "idle"]
    /\ pend' = [pend EXCEPT ![i] = <<>>]
    /\ UNCHANGED <<users, passwords, log, rnd, now>>

\* passwords.json is altered outside the program: the bytes of one stored
\* ciphertext, or of one stored nonce, of an entry not altered before.
Tamper ==
    \E u \in DOMAIN passwords :
        \E d \in DOMAIN passwords[u] :
            /\ b64decode(passwords[u][d].encrypted_data).intact
            /\ b64decode(passwords[u][d].nonce) = b64decode(passwords[u][d].encrypted_data).n
            /\ \/ passwords' = [passwords EXCEPT ![u][d].encrypted_data.b64.intact = FALSE]
               \/ passwords' = [passwords EXCEPT ![u][d].nonce = b64encode(0)]
            /\ UNCHANGED <<users, log, rnd, now, current_user, current_key, pc, pend>>

\* A data file becomes unreadable from outside the program: a write of
\* _write_json cut short by a full disk or a kill, or the file removed.
Damage ==
    /\ \/ /\ passwords # Unparseable
          /\ passwords' = Unparseable
          /\ UNCHANGED users
       \/ /\ users # Unparseable
          /\ users' = Unparseable
          /\ UNCHANGED passwords
    /\ UNCHANGED <<log, rnd, now, current_user, current_key, pc, pend>>

\* generate_password up to line 397: the locals of the call of instance i.
GenerateCall(i) ==
    \E length \in Lengths, flags \in FlagSets :
        /\ Idle(i)
        /\ pc' = [pc EXCEPT ![i] = "line398"]
        /\ pend' = [pend EXCEPT ![i] =
                        [asked |-> length,
                         flags |-> flags,
                         length |-> enforced_length(length),
                         chars |-> chars(flags),
                         password |-> required(flags),
                         remaining |-> enforced_length(length) - Size(required(flags))]]
        /\ UNCHANGED <<users, passwords, log, rnd, now, current_user, current_key>>

\* Line 398: one secrets.choice(chars) of the loop over range(remaining).
GenerateChoice(i) ==
    /\ pc[i] = "line398"
    /\ pend[i].remaining > 0
    /\ \E c \in pend[i].chars :
          pend' = [pend EXCEPT ![i].password[c] = @ + 1,
                               ![i].remaining = @ - 1]
    /\ UNCHANGED <<users, passwords, log, rnd, now, current_user, current_key, pc>>

\* Lines 400-402: the loop has ended; the list is shuffled, which keeps its
\* characters and lets them stand in any order, and joined.
GenerateReturn(i) ==
    /\ pc[i] = "line398"
    /\ pend[i].remaining <= 0
    /\ pc' = [pc EXCEPT ![i] = "line402"]
    /\ UNCHANGED <<users, passwords, log, rnd, now, current_user, current_key, pend>>

\* The caller has the password; the locals of the call are gone.
GenerateDone(i) ==
    /\ pc[i] = "line402"
    /\ pc' = [pc EXCEPT ![i] = "idle"]
    /\ pend' = [pend EXCEPT ![i] = <<>>]
    /\ UNCHANGED <<users, passwords, log, rnd, now, current_user, current_key>>

\* add_password of instance i up to line 446: the file is read, not yet
\* written.
AddRead(i) ==
    \E a \in AddCalls :
        \E gen \in (IF a[2] = None THEN Generated ELSE {None}) :
            LET o == add_password_read(View(i), a[1], a[2], a[3], a[4], gen)
            IN /\ Idle(i)
               /\ Leave(i, o.s)
               /\ IF o.ret # "go"
                  THEN UNCHANGED <<pc, pend>>
                  ELSE /\ pc' = [pc EXCEPT ![i] = "line446"]
                       /\ pend' = [pend EXCEPT ![i] = o.val[1]]

\* add_password of instance i from line 446 on.
AddWrite(i) ==
    /\ pc[i] = "line446"
    /\ Leave(i, add_password_write(View(i), pend[i]).s)
    /\ pc' = [pc EXCEPT ![i] = "idle"]
    /\ pend' = [pend EXCEPT ![i] = <<>>]

\* Time passes.
Tick ==
    /\ now < MaxTime
    /\ now' = now + 1
    /\ UNCHANGED <<users, passwords, log, rnd, current_user, current_key, pc, pend>>

Next ==
    \/ Tick
    \/ \E i \in Inst :
        \/ Authenticate(i)
        \/ Logout(i)
        \/ AddPassword(i)
        \/ GetPassword(i)
        \/ GetAllDomains(i)
        \/ UpdatePassword(i)
        \/ DeletePassword(i)
        \/ ChangeMasterPassword(i)

\* One instance, no crash, nobody else touching the files.
Spec == Init /\ [][Next]_vars

NextEnv ==
    \/ Tick
    \/ Tamper
    \/ \E i \in Inst :
        \/ Authenticate(i)
        \/ Logout(i)
        \/ AddPassword(i)
        \/ GetPassword(i)
        \/ GetAllDomains(i)
        \/ UpdatePassword(i)
        \/ DeletePassword(i)
        \/ RotateBegin(i)
        \/ RotateEnd(i)
        \/ Crash(i)

\* The same instance in its environment: the process may die between two
\* file writes, and the files may be altered from outside.
SpecEnv == Init /\ [][NextEnv]_vars

NextCrash ==
    \/ Tick
    \/ \E i \in Inst :
        \/ Authenticate(i)
        \/ Logout(i)
        \/ AddPassword(i)
        \/ GetPassword(i)
        \/ GetAllDomains(i)
        \/ UpdatePassword(i)
        \/ DeletePassword(i)
        \/ RotateBegin(i)
        \/ RotateEnd(i)
        \/ Crash(i)

\* The instance and crashes of its process; nobody else touches the files.
SpecCrash == Init /\ [][NextCrash]_vars

NextIO ==
    \/ Damage
    \/ \E i \in Inst :
        \/ Authenticate(i)
        \/ Logout(i)
        \/ AddPassword(i)
        \/ GetPassword(i)
        \/ GetAllDomains(i)
        \/ UpdatePassword(i)
        \/ DeletePassword(i)
        \/ ChangeMasterPassword(i)

\* The instance on data files that may become unreadable.
SpecIO == Init /\ [][NextIO]_vars

NextGen ==
    \E i \in Inst :
        \/ GenerateCall(i)
        \/ GenerateChoice(i)
        \/ GenerateReturn(i)
        \/ GenerateDone(i)

\* Calls of generate_password, one after the other.
SpecGen == Init /\ [][NextGen]_vars

\* An owner of an account logs in on instance i.
Login(i) ==
    \E c \in Logins :
        LET o == authenticate(View(i), c[1], c[2])
        IN Idle(i) /\ Leave(i, o.s)
           /\ UNCHANGED <<pc, pend>>

NextUsers ==
    \E i \in Inst :
        \/ Login(i)
        \/ Logout(i)
        \/ AddPassword(i)
        \/ UpdatePassword(i)
        \/ DeletePassword(i)
        \/ ChangeMasterPassword(i)

\* One instance used in turn by two users of the same store.
SpecUsers == Init /\ [][NextUsers]_vars

\* Two instances constructed on the same data directory: the second
\* __init__ finds the three files and writes nothing.
InitTwo ==
    /\ users = InitUsers
    /\ passwords = EmptyMap
    /\ log = InitLog
    /\ rnd = 6
    /\ now = 0
    /\ current_user = [i \in Inst2 |-> None]
    /\ current_key = [i \in Inst2 |-> NoKey]
    /\ pc = [i \in Inst2 |-> "idle"]
    /\ pend = [i \in Inst2 |-> <<>>]

NextTwo ==
    \E i \in Inst2 :
        \/ Login(i)
        \/ AddRead(i)
        \/ AddWrite(i)
        \/ UpdatePassword(i)
        \/ DeletePassword(i)

\* Two instances whose calls interleave between the read and the write of
\* passwords.json.
SpecTwo == InitTwo /\ [][NextTwo]_vars

\* Lines 337-338 of main, 298 of run and 66-67 of login: the console is
\* constructed, run calls login, login is at the test of its loop.
CliRun(i) ==
    /\ Idle(i)
    /\ pc' = [pc EXCEPT ![i] = "line69"]
    /\ pend' = [pend EXCEPT ![i] = [attempts |-> 0]]
    /\ UNCHANGED <<users, passwords, log, rnd, now, current_user, current_key>>

\* Lines 69-84: one pass of the loop of login.
CliLogin(i) ==
    /\ pc[i] = "line69"
    /\ pend[i].attempts < max_attempts
    /\ \E username \in UserNames, password \in MasterPasswords :
          LET o == authenticate(View(i), username, password)
              after == login_pass(o.ret, pend[i].attempts)
          IN /\ LeaveCLI(i, o.s)
             /\ pc' = [pc EXCEPT ![i] = after.pc]
             /\ pend' = [pend EXCEPT ![i] = IF after.pc = "line69"
                                            THEN [attempts |-> after.attempts]
                                            ELSE <<>>]

\* Choice 1 of the menu.
CliViewPasswords(i) ==
    /\ pc[i] = "line303"
    /\ LeaveCLI(i, cli_view_passwords(View(i)))
    /\ UNCHANGED <<pc, pend>>

\* Choice 2 of the menu.
CliAddPassword(i) ==
    /\ pc[i] = "line303"
    /\ \E a \in AddCalls \cup {<<"", "pw1", None, None>>} :
          \E gen \in (IF a[2] = None THEN Generated ELSE {None}) :
              LeaveCLI(i, cli_add_password(View(i), a[1], a[2], a[3], a[4], gen))
    /\ UNCHANGED <<pc, pend>>

\* Choice 3 of the menu.
CliUpdatePassword(i) ==
    /\ pc[i] = "line303"
    /\ \E a \in UpdateCalls :
          \E gen \in (IF a[2] = None THEN Generated ELSE {None}) :
              LeaveCLI(i, cli_update_password(View(i), a[1], a[2], gen))
    /\ UNCHANGED <<pc, pend>>

\* Choice 4 of the menu.
CliDeletePassword(i) ==
    /\ pc[i] = "line303"
    /\ \E domain \in Domains, confirm \in Confirmations :
          LeaveCLI(i, cli_delete_password(View(i), domain, confirm))
    /\ UNCHANGED <<pc, pend>>

\* Choice 5 of the menu.
CliChangeMasterPassword(i) ==
    /\ pc[i] = "line303"
    /\ \E old_password \in MasterPasswords :
          \E new_password \in TypedPasswords, confirm_password \in TypedPasswords :
              LeaveCLI(i, cli_change_master_password(View(i), old_password, new_password,
                                                     confirm_password))
    /\ UNCHANGED <<pc, pend>>

\* Choice 6 of the menu.
CliViewLogs(i) ==
    /\ pc[i] = "line303"
    /\ LeaveCLI(i, cli_view_logs(View(i)))
    /\ UNCHANGED <<pc, pend>>

\* Choice 7 of the menu, lines 324-331: logout, running = False, the loop
\* and run end.
CliQuit(i) ==
    /\ pc[i] = "line303"
    /\ LeaveCLI(i, logout(View(i)).s)
    /\ pc' = [pc EXCEPT ![i] = "line331"]
    /\ UNCHANGED pend

NextCLI ==
    \E i \in Inst :
        \/ CliRun(i)
        \/ CliLogin(i)
        \/ CliViewPasswords(i)
        \/ CliAddPassword(i)
        \/ CliUpdatePassword(i)
        \/ CliDeletePassword(i)
        \/ CliChangeMasterPassword(i)
        \/ CliViewLogs(i)
        \/ CliQuit(i)

\* One run of the console on a fresh data directory.
SpecCLI == Init /\ [][NextCLI]_vars

---------------------------------------------------------------------------
(* Vocabulary of the properties *)

\* The entries stored for the session user of state s.
MyEntries(s) == IF s.user \in DOMAIN s.passwords THEN s.passwords[s.user] ELSE EmptyMap

\* Instance i is between two calls, with a session.
Active(i) == Idle(i) /\ current_user[i] # None /\ current_key[i] # NoKey

\* Entry e cannot be decrypted under key k.
Unreadable(e, k) == ~_decrypt_password(e.encrypted_data, e.nonce, k).ok

LogLine(t, username, action) == [timestamp |-> t, username |-> username, action |-> action]

LastLine == log[Len(log)]

---------------------------------------------------------------------------
(* C1 *)

\* C1: when one of the session user's entries does not decrypt under the
\* session key, change_master_password does not succeed and leaves users.json
\* and passwords.json as they were; with a correct old password it ends in
\* the exception of the failed decryption.
C1_RotationAbortsOnDecryptFailure ==
    \A i \in Inst : \A old_password \in MasterPasswords, new_password \in MasterPasswords :
        LET s == View(i)
            o == change_master_password(s, old_password, new_password)
        IN (/\ Active(i)
            /\ \E d \in DOMAIN MyEntries(s) : Unreadable(MyEntries(s)[d], s.key))
           => /\ o.ret # "True"
              /\ _verify_password(old_password, users[s.user].password_hash) => o.ret = "raise"
              /\ o.s.users = users
              /\ o.s.passwords = passwords

\* A session holding two entries of which exactly one does not decrypt, where
\* the rotation with the right old password aborts.
C1_Witness ==
    /\ Active(1)
    /\ DOMAIN MyEntries(View(1)) = {"a.com", "x.com"}
    /\ Unreadable(MyEntries(View(1))["x.com"], current_key[1])
    /\ ~Unreadable(MyEntries(View(1))["a.com"], current_key[1])
    /\ _verify_password("Admin@2024", users["admin"].password_hash)
    /\ change_master_password(View(1), "Admin@2024", "New@2025").ret = "raise"

---------------------------------------------------------------------------
(* C2 *)

\* Every stored entry of every user is encrypted under the key derived from
\* the password and the salt of that user's AuthRecord.
OneKeyStore ==
    \A u \in DOMAIN passwords : \A d \in DOMAIN passwords[u] :
        b64decode(passwords[u][d].encrypted_data).k
            = _derive_key(users[u].password_hash.pw, b64decode(users[u].salt))

\* C2: a crash during change_master_password leaves the files entirely
\* pre-rotation or entirely post-rotation: whenever no call is in progress
\* and nothing was altered from outside, no user's AuthRecord holds one
\* password and salt while an entry of that user is under another key.
C2_NoMixedKeyStoreAfterCrash ==
    (\A i \in Inst : Idle(i)) => OneKeyStore

---------------------------------------------------------------------------
(* C3 *)

\* C3: from any state in which change_master_password(old, new) succeeds,
\* the calls logout(), authenticate(user, new), get_password(d) that follow
\* it log the user in again and return, for every domain d stored before the
\* rotation, the password get_password(d) returned before the rotation.
C3_PasswordsSurviveRotation ==
    \A i \in Inst : \A old_password \in MasterPasswords, new_password \in MasterPasswords :
        LET s == View(i)
            rotated == change_master_password(s, old_password, new_password)
            out == logout(rotated.s)
            back == authenticate(out.s, s.user, new_password)
        IN (Idle(i) /\ rotated.ret = "True")
           => /\ out.s.user = None
              /\ back.ret = "True"
              /\ \A d \in DOMAIN MyEntries(s) :
                    LET before == get_password(s, d)
                        after == get_password(back.s, d)
                    IN /\ before.ret = "value"
                       /\ after.ret = "value"
                       /\ after.val[1].password = before.val[1].password

\* The rotation has happened on a store that holds an entry.
C3_Witness ==
    /\ LastLine.action = <<"Master password changed successfully">>
    /\ users["admin"].password_hash.pw = "New@2025"
    /\ "a.com" \in DOMAIN MyEntries(View(1))
    /\ get_password(authenticate(logout(View(1)).s, "admin", "New@2025").s, "a.com").val[1].password = "pw1"

---------------------------------------------------------------------------
(* C4 *)

\* C4: in a session, change_master_password with an old password that does
\* not verify returns False, appends one failure line to the log, and
\* leaves users.json, passwords.json and the session (user, key) unchanged.
C4_WrongOldPasswordRejected ==
    \A i \in Inst : \A old_password \in MasterPasswords, new_password \in MasterPasswords :
        LET s == View(i)
            o == change_master_password(s, old_password, new_password)
        IN (Active(i) /\ ~_verify_password(old_password, users[s.user].password_hash))
           => /\ o.ret = "False"
              /\ o.s.log = Append(log, LogLine(now, s.user,
                                   <<"Failed password change - incorrect old password">>))
              /\ o.s.users = users
              /\ o.s.passwords = passwords
              /\ o.s.user = s.user
              /\ o.s.key = s.key

\* A rotation was just refused in a session that holds an entry.
C4_Witness ==
    /\ Active(1)
    /\ LastLine.action = <<"Failed password change - incorrect old password">>
    /\ DOMAIN MyEntries(View(1)) # {}

---------------------------------------------------------------------------
(* C5 *)

\* What a call leaves when it fails without a trace: the state it found.
Untouched(s, o) == o.s = s

\* C5: without a session, add_password, get_password, update_password,
\* delete_password, get_all_domains and change_master_password return their
\* failure or empty result and change neither the files nor the log.
C5_NoSessionNoEffect ==
    \A i \in Inst :
        LET s == View(i)
        IN (Idle(i) /\ current_user[i] = None)
           => /\ \A a \in AddCalls : \A gen \in Generated :
                    LET o == add_password(s, a[1], a[2], a[3], a[4], gen)
                    IN o.ret = "False" /\ Untouched(s, o)
              /\ \A d \in Domains :
                    LET o == get_password(s, d)
                    IN o.ret = "None" /\ Untouched(s, o)
              /\ \A a \in UpdateCalls : \A gen \in Generated :
                    LET o == update_password(s, a[1], a[2], gen)
                    IN o.ret = "False" /\ Untouched(s, o)
              /\ \A d \in Domains :
                    LET o == delete_password(s, d)
                    IN o.ret = "False" /\ Untouched(s, o)
              /\ LET o == get_all_domains(s)
                 IN o.val = {} /\ Untouched(s, o)
              /\ \A old_password \in MasterPasswords, new_password \in MasterPasswords :
                    LET o == change_master_password(s, old_password, new_password)
                    IN o.ret = "False" /\ Untouched(s, o)

\* Logged out again, with an entry of the former session user still stored.
C5_Witness ==
    /\ current_user[1] = None
    /\ LastLine.action = <<"Logged out">>
    /\ "admin" \in DOMAIN passwords
    /\ "a.com" \in DOMAIN passwords["admin"]
    /\ delete_password(View(1), "a.com").ret = "False"

---------------------------------------------------------------------------
(* C6 *)

\* C6: add_password for a domain the session user already has fails and
\* leaves the stored entry as it was.
C6_AddExistingDomainConflicts ==
    \A i \in Inst : \A a \in AddCalls : \A gen \in Generated :
        LET s == View(i)
            o == add_password(s, a[1], a[2], a[3], a[4], gen)
        IN (Active(i) /\ a[1] \in DOMAIN MyEntries(s))
           => /\ o.ret = "False"
              /\ MyEntries(o.s)[a[1]] = MyEntries(s)[a[1]]

---------------------------------------------------------------------------
(* C7 *)

\* The password the caller of add_password / update_password asked to store.
Chosen(password, gen) == IF password = None THEN gen ELSE password

\* C7: (a) after a successful add_password(d, p, username, notes),
\* get_password(d) returns p, username and notes; (b) an add_password,
\* update_password or delete_password on another domain leaves what
\* get_password(d) returns for a readable entry d unchanged.
C7_AddThenGet ==
    \A i \in Inst :
        LET s == View(i)
        IN Active(i)
           => /\ \A a \in AddCalls : \A gen \in Generated :
                    LET o == add_password(s, a[1], a[2], a[3], a[4], gen)
                        g == get_password(o.s, a[1])
                    IN o.ret = "True"
                       => /\ g.ret = "value"
                          /\ g.val[1].password = Chosen(a[2], gen)
                          /\ g.val[1].username = a[3]
                          /\ g.val[1].notes = a[4]
              /\ \A d \in DOMAIN MyEntries(s) :
                    LET before == get_password(s, d)
                        Same(o) == get_password(o.s, d).ret = "value"
                                   /\ get_password(o.s, d).val = before.val
                    IN before.ret = "value"
                       => /\ \A a \in AddCalls : \A gen \in Generated :
                                a[1] # d => Same(add_password(s, a[1], a[2], a[3], a[4], gen))
                          /\ \A a \in UpdateCalls : \A gen \in Generated :
                                a[1] # d => Same(update_password(s, a[1], a[2], gen))
                          /\ \A d2 \in Domains :
                                d2 # d => Same(delete_password(s, d2))

\* a.com was added with "pw1", x.com was added after it, and a.com still
\* reads "pw1" with its username and notes.
C7_Witness ==
    /\ Active(1)
    /\ LastLine.action = <<"Added password for domain", "x.com">>
    /\ DOMAIN MyEntries(View(1)) = {"a.com", "x.com"}
    /\ get_password(View(1), "a.com").val[1].password = "pw1"
    /\ get_password(View(1), "a.com").val[1].username = "bob"
    /\ get_password(View(1), "a.com").val[1].notes = "work"

---------------------------------------------------------------------------
(* C8 *)

\* C8: when the stored entry of a domain does not decrypt under the session
\* key, get_password returns None without raising, appends one failure line
\* to the log, and leaves the files and the session as they were.
C8_UnreadableEntryReadsAsAbsent ==
    \A i \in Inst : \A d \in Domains :
        LET s == View(i)
            o == get_password(s, d)
        IN (Active(i) /\ d \in DOMAIN MyEntries(s) /\ Unreadable(MyEntries(s)[d], s.key))
           => /\ o.ret = "None"
              /\ o.s.log = Append(log, LogLine(now, s.user, <<"Failed to decrypt password for", d>>))
              /\ o.s.passwords = passwords
              /\ o.s.users = users
              /\ o.s.user = s.user
              /\ o.s.key = s.key

\* get_password has just failed on a stored entry, and the session goes on.
C8_Witness ==
    /\ Active(1)
    /\ LastLine.action = <<"Failed to decrypt password for", "a.com">>
    /\ "a.com" \in DOMAIN MyEntries(View(1))
    /\ Unreadable(MyEntries(View(1))["a.com"], current_key[1])

---------------------------------------------------------------------------
(* C9 *)

\* C9: get_password for a domain the session user has no entry for returns
\* None and appends a line to the log.
C9_MissingDomainIsLogged ==
    \A i \in Inst : \A d \in Domains :
        LET s == View(i)
            o == get_password(s, d)
        IN (Active(i) /\ d \notin DOMAIN MyEntries(s))
           => /\ o.ret = "None"
              /\ Len(o.s.log) = Len(log) + 1

---------------------------------------------------------------------------
(* C10 *)

\* C10: update_password on a stored domain succeeds; of that entry only
\* encrypted_data, nonce and updated_at may change; every other entry of
\* every user is unchanged; get_password then returns the new password.
C10_UpdateChangesOnlyItsEntry ==
    \A i \in Inst : \A a \in UpdateCalls : \A gen \in Generated :
        LET s == View(i)
            d == a[1]
            o == update_password(s, d, a[2], gen)
            old == MyEntries(s)[d]
            new == MyEntries(o.s)[d]
        IN (Active(i) /\ d \in DOMAIN MyEntries(s))
           => /\ o.ret = "True"
              /\ DOMAIN o.s.passwords = DOMAIN passwords
              /\ \A u \in DOMAIN passwords :
                    /\ DOMAIN o.s.passwords[u] = DOMAIN passwords[u]
                    /\ \A d2 \in DOMAIN passwords[u] :
                          (u # s.user \/ d2 # d) => o.s.passwords[u][d2] = passwords[u][d2]
              /\ DOMAIN new = DOMAIN old
              /\ \A f \in DOMAIN old \ {"encrypted_data", "nonce", "updated_at"} : new[f] = old[f]
              /\ new.updated_at = now
              /\ new.nonce # old.nonce
              /\ get_password(o.s, d).ret = "value"
              /\ get_password(o.s, d).val[1].password = Chosen(a[2], gen)

\* a.com was added with a username and notes, time passed, and a.com was
\* updated: it reads "pw2", and its created_at is older than its updated_at.
C10_Witness ==
    /\ Active(1)
    /\ LastLine.action = <<"Updated password for domain", "a.com">>
    /\ MyEntries(View(1))["a.com"].username = "bob"
    /\ MyEntries(View(1))["a.com"].created_at < MyEntries(View(1))["a.com"].updated_at
    /\ get_password(View(1), "a.com").val[1].password = "pw2"

---------------------------------------------------------------------------
(* C11 *)

\* C11: update_password and delete_password for a domain the session user
\* has no entry for return False and leave the files, the log and the
\* session exactly as they found them; in particular no entry is created.
C11_MissingDomainRefused ==
    \A i \in Inst : \A d \in Domains :
        LET s == View(i)
        IN (Active(i) /\ d \notin DOMAIN MyEntries(s))
           => /\ \A new_password \in {"pw2", None} : \A gen \in Generated :
                    LET o == update_password(s, d, new_password, gen)
                    IN /\ o.ret = "False"
                       /\ d \notin DOMAIN MyEntries(o.s)
                       /\ Untouched(s, o)
              /\ LET o == delete_password(s, d)
                 IN /\ o.ret = "False"
                    /\ d \notin DOMAIN MyEntries(o.s)
                    /\ Untouched(s, o)

\* A session that holds a.com and not x.com, where both calls on x.com are
\* refused.
C11_Witness ==
    /\ Active(1)
    /\ DOMAIN MyEntries(View(1)) = {"a.com"}
    /\ update_password(View(1), "x.com", None, "gen16chars").ret = "False"
    /\ delete_password(View(1), "x.com").ret = "False"

---------------------------------------------------------------------------
(* C12 *)

\* The entries of every user but the session user of s are the same in o.s.
OthersEntriesKept(s, o) ==
    \A u \in (DOMAIN s.passwords \cup DOMAIN o.s.passwords) \ {s.user} :
        /\ u \in DOMAIN s.passwords
        /\ u \in DOMAIN o.s.passwords
        /\ o.s.passwords[u] = s.passwords[u]

\* C12: delete_password on a stored domain d returns True and removes that
\* entry only: get_password(d) then returns None, get_all_domains() is the
\* former list without d, every other entry is unchanged, and an
\* add_password(d, ...) that follows succeeds and stores a new entry.
C12_DeleteRemovesExactlyOne ==
    \A i \in Inst : \A d \in Domains :
        LET s == View(i)
            o == delete_password(s, d)
        IN (Active(i) /\ d \in DOMAIN MyEntries(s))
           => /\ o.ret = "True"
              /\ get_password(o.s, d).ret = "None"
              /\ get_all_domains(o.s).val = DOMAIN MyEntries(s) \ {d}
              /\ \A d2 \in DOMAIN MyEntries(s) \ {d} : MyEntries(o.s)[d2] = MyEntries(s)[d2]
              /\ OthersEntriesKept(s, o)
              /\ o.s.users = users
              /\ \A a \in AddCalls : \A gen \in Generated :
                    LET r == add_password(o.s, a[1], a[2], a[3], a[4], gen)
                        g == get_password(r.s, d)
                    IN a[1] = d
                       => /\ r.ret = "True"
                          /\ MyEntries(r.s)[d].created_at = now
                          /\ MyEntries(r.s)[d].username = a[3]
                          /\ MyEntries(r.s)[d].notes = a[4]
                          /\ MyEntries(r.s)[d].nonce # MyEntries(s)[d].nonce
                          /\ g.ret = "value"
                          /\ g.val[1].password = Chosen(a[2], gen)

\* a.com was stored and has just been deleted: it reads as absent, it is
\* not listed, and it can be added again.
C12_Witness ==
    /\ Active(1)
    /\ LastLine.action = <<"Deleted password for domain", "a.com">>
    /\ get_password(View(1), "a.com").ret = "None"
    /\ "a.com" \notin get_all_domains(View(1)).val
    /\ add_password(View(1), "a.com", "pw1", "bob", "work", None).ret = "True"

---------------------------------------------------------------------------
(* C13 *)

\* The AuthRecord and the entries of every user but the session user of s
\* are in state t what they are in s.
OthersKept(s, t) ==
    /\ DOMAIN t.users = DOMAIN s.users
    /\ \A u \in DOMAIN s.users \ {s.user} : t.users[u] = s.users[u]
    /\ OthersEntriesKept(s, [s |-> t])

\* The master passwords of the two owners and the one a rotation moves to.
RotationPasswords == MasterPasswords \cup {c[2] : c \in Logins}

\* C13: in a session of user u, add_password, update_password,
\* delete_password and change_master_password, each called on the store as
\* it is and on the store as an add_password of u leaves it, leave the
\* AuthRecord and the entries of every other user unchanged.
C13_OtherUsersUntouched ==
    \A i \in Inst :
        LET s == View(i)
            After(t) ==
                /\ \A a \in UpdateCalls : \A gen \in Generated :
                      OthersKept(s, update_password(t, a[1], a[2], gen).s)
                /\ \A d \in Domains :
                      OthersKept(s, delete_password(t, d).s)
                /\ \A old_password \in RotationPasswords, new_password \in MasterPasswords :
                      OthersKept(s, change_master_password(t, old_password, new_password).s)
        IN Active(i)
           => /\ After(s)
              /\ \A a \in AddCalls : \A gen \in Generated :
                    LET o == add_password(s, a[1], a[2], a[3], a[4], gen)
                    IN OthersKept(s, o.s) /\ After(o.s)

\* admin has stored a.com and testuser has then logged in: testuser's
\* add_password, update_password, delete_password and rotation all succeed
\* next to admin's entry.
C13_Witness ==
    /\ Active(1)
    /\ current_user[1] = "testuser"
    /\ "admin" \in DOMAIN passwords
    /\ "a.com" \in DOMAIN passwords["admin"]
    /\ LET o == add_password(View(1), "a.com", "pw1", "bob", "work", None)
       IN /\ o.ret = "True"
          /\ update_password(o.s, "a.com", "pw2", None).ret = "True"
          /\ delete_password(o.s, "a.com").ret = "True"
          /\ change_master_password(o.s, "Test@2024", "New@2025").ret = "True"

---------------------------------------------------------------------------
(* C14 *)

\* The user names a caller of authenticate may give.
LoginNames == UserNames \cup {c[1] : c \in Logins}

\* Call o leaves the session of s as it is.
SessionKept(s, o) == o.s.user = s.user /\ o.s.key = s.key

\* C14: between two calls the session has a user exactly when it has a key;
\* add_password, get_password, get_all_domains, update_password and
\* delete_password leave the session user and key unchanged;
\* change_master_password leaves the session user unchanged (and the key
\* too unless it succeeds); an authenticate that returns False leaves both
\* unchanged and one that returns True binds the session to its username;
\* logout leaves the session without user and without key.
C14_SessionOnlyByLoginAndLogout ==
    \A i \in Inst :
        LET s == View(i)
        IN Idle(i)
           => /\ (s.user = None) <=> (s.key = NoKey)
              /\ \A a \in AddCalls : \A gen \in Generated :
                    SessionKept(s, add_password(s, a[1], a[2], a[3], a[4], gen))
              /\ \A d \in Domains : SessionKept(s, get_password(s, d))
              /\ SessionKept(s, get_all_domains(s))
              /\ \A a \in UpdateCalls : \A gen \in Generated :
                    SessionKept(s, update_password(s, a[1], a[2], gen))
              /\ \A d \in Domains : SessionKept(s, delete_password(s, d))
              /\ \A old_password \in RotationPasswords, new_password \in MasterPasswords :
                    LET o == change_master_password(s, old_password, new_password)
                    IN /\ o.s.user = s.user
                       /\ o.ret # "True" => o.s.key = s.key
                       /\ o.ret = "True" => o.s.key # NoKey
              /\ \A username \in LoginNames, password \in RotationPasswords :
                    LET o == authenticate(s, username, password)
                    IN IF o.ret = "True"
                       THEN o.s.user = username /\ o.s.key # NoKey
                       ELSE SessionKept(s, o)
              /\ LET o == logout(s)
                 IN o.s.user = None /\ o.s.key = NoKey

\* admin logged in, acted, and testuser then logged in on the same
\* instance: the session is testuser's, and a logout would clear it.
C14_Witness ==
    /\ Len(log) = 5
    /\ log[3] = LogLine(0, "admin", <<"Successful login">>)
    /\ log[4].username = "admin"
    /\ LastLine = LogLine(0, "testuser", <<"Successful login">>)
    /\ current_user[1] = "testuser"
    /\ current_key[1] = _derive_key("Test@2024", b64decode(users["testuser"].salt))
    /\ logout(View(1)).s.key = NoKey

---------------------------------------------------------------------------
(* C15 *)

\* C15: authenticate with a username that is not in users.json, or with a
\* password that does not verify against the stored hash, returns False,
\* appends one failure line to the log, and leaves users.json (last_login
\* included), passwords.json and the session (user and key) unchanged.
C15_FailedLoginChangesNothing ==
    \A i \in Inst : \A username \in LoginNames, password \in RotationPasswords :
        LET s == View(i)
            o == authenticate(s, username, password)
            unknown == username \notin DOMAIN users
        IN (Idle(i) /\ (unknown \/ ~_verify_password(password, users[username].password_hash)))
           => /\ o.ret = "False"
              /\ o.s.log = Append(log, LogLine(now, username,
                                   IF unknown
                                   THEN <<"Failed login attempt - user not found">>
                                   ELSE <<"Failed login attempt - incorrect password">>))
              /\ o.s.users = users
              /\ o.s.passwords = passwords
              /\ SessionKept(s, o)

\* In admin's session a login with an unknown name and a login with a wrong
\* password have just failed; the session is still admin's.
C15_Witness ==
    /\ Active(1)
    /\ current_user[1] = "admin"
    /\ Len(log) = 5
    /\ log[4].action = <<"Failed login attempt - user not found">>
    /\ log[5].action = <<"Failed login attempt - incorrect password">>
    /\ users["admin"].last_login <= log[4].timestamp

---------------------------------------------------------------------------
(* C16 *)

\* C16: when authenticate(u, p) returns True, the session user is u, the
\* session key is the key derived from p and the salt stored for u, u's
\* last_login is the time of the call, one success line is appended to the
\* log, nothing else of users.json and nothing of passwords.json has
\* changed, and the entries u stored under an earlier session decrypt.
C16_LoginBindsSessionAndKey ==
    \A i \in Inst : \A username \in LoginNames, password \in RotationPasswords :
        LET s == View(i)
            o == authenticate(s, username, password)
        IN (Idle(i) /\ o.ret = "True")
           => /\ o.s.user = username
              /\ o.s.key = _derive_key(password, b64decode(users[username].salt))
              /\ o.s.users[username].last_login = now
              /\ o.s.users = [users EXCEPT ![username].last_login = now]
              /\ \A u \in DOMAIN users :
                    /\ o.s.users[u].password_hash = users[u].password_hash
                    /\ o.s.users[u].salt = users[u].salt
              /\ o.s.log = Append(log, LogLine(now, username, <<"Successful login">>))
              /\ o.s.passwords = passwords
              /\ \A d \in DOMAIN MyEntries(o.s) : get_password(o.s, d).ret = "value"

\* admin has moved to a new master password and salt, and has logged in
\* again with the new password: the session key comes from the new salt.
C16_Witness ==
    /\ LastLine.action = <<"Successful login">>
    /\ current_user[1] = "admin"
    /\ users["admin"].salt # InitUsers["admin"].salt
    /\ users["admin"].last_login = LastLine.timestamp
    /\ current_key[1] = _derive_key("New@2025", b64decode(users["admin"].salt))

---------------------------------------------------------------------------
(* C17 *)

\* C17: in every step, crashes included, a user's stored salt or password
\* hash changes only if both change, in the one write of users.json of a
\* change_master_password that runs in that user's session and has passed
\* the verification of the old password; no other record of users.json
\* loses or gains a user in that step.
C17_SaltAndHashChangeTogether ==
    [][\A u \in DOMAIN users :
          LET hash_changed == users'[u].password_hash # users[u].password_hash
              salt_changed == users'[u].salt # users[u].salt
          IN (hash_changed \/ salt_changed)
             => /\ hash_changed
                /\ salt_changed
                /\ \E i \in Inst :
                      /\ current_user[i] = u
                      /\ current_user'[i] = u
                      /\ \E old_password \in MasterPasswords, new_password \in MasterPasswords :
                            /\ rotation_check(View(i), old_password).ret = "go"
                            /\ users' = rotation_plan(View(i), new_password).users
                /\ DOMAIN users' = DOMAIN users]_vars

\* A rotation of admin has written users.json and not yet passwords.json:
\* admin's salt and hash are both new, the other accounts are as created.
C17_Witness ==
    /\ pc[1] = "line337"
    /\ current_user[1] = "admin"
    /\ users["admin"].salt # InitUsers["admin"].salt
    /\ users["admin"].password_hash # InitUsers["admin"].password_hash
    /\ users["testuser"] = InitUsers["testuser"]
    /\ DOMAIN MyEntries(View(1)) # {}

---------------------------------------------------------------------------
(* C18 *)

\* The (user, domain) pairs stored in state t, and the ciphertext of one.
Cells(t) == UNION {{<<u, d>> : d \in DOMAIN t.passwords[u]} : u \in DOMAIN t.passwords}
Ciphertext(t, x) == b64decode(t.passwords[x[1]][x[2]].encrypted_data)

\* The ciphertexts call o has produced: those stored in o.s that s did not
\* hold in the same place.
Encrypted(s, o) ==
    {x \in Cells(o.s) : ~(x \in Cells(s) /\ Ciphertext(s, x) = Ciphertext(o.s, x))}

\* Every encryption of call o used a value drawn from the OS randomness
\* during the call, no two of them the same draw, and none a nonce of a
\* ciphertext stored under the same key before the call.
FreshNonces(s, o) ==
    /\ o.s.rnd >= s.rnd
    /\ \A x \in Encrypted(s, o) :
          LET c == Ciphertext(o.s, x)
          IN /\ c.n > s.rnd
             /\ c.n <= o.s.rnd
             /\ b64decode(o.s.passwords[x[1]][x[2]].nonce) = c.n
             /\ \A y \in Encrypted(s, o) \ {x} :
                   Ciphertext(o.s, y).k = c.k => Ciphertext(o.s, y).n # c.n
             /\ \A z \in Cells(s) :
                   Ciphertext(s, z).k = c.k => Ciphertext(s, z).n # c.n

\* C18: no stored nonce is a value the OS randomness has yet to return, and
\* every add_password, update_password and change_master_password encrypts
\* each of its ciphertexts under a nonce drawn during the call: so, the
\* randomness source never returning a value twice, no two encryptions
\* under one key share a nonce.
C18_NoNonceReuse ==
    \A i \in Inst :
        LET s == View(i)
        IN Idle(i)
           => /\ \A x \in Cells(s) : Ciphertext(s, x).n <= rnd
              /\ \A x \in Cells(s), y \in Cells(s) :
                    (x # y /\ Ciphertext(s, x).k = Ciphertext(s, y).k)
                        => Ciphertext(s, x).n # Ciphertext(s, y).n
              /\ \A a \in AddCalls : \A gen \in Generated :
                    FreshNonces(s, add_password(s, a[1], a[2], a[3], a[4], gen))
              /\ \A a \in UpdateCalls : \A gen \in Generated :
                    FreshNonces(s, update_password(s, a[1], a[2], gen))
              /\ \A old_password \in MasterPasswords, new_password \in MasterPasswords :
                    FreshNonces(s, change_master_password(s, old_password, new_password))

\* Two entries encrypted under the session key; a rotation to the same
\* master password encrypts both again, under two more nonces.
C18_Witness ==
    /\ Active(1)
    /\ Cells(View(1)) = {<<"admin", "a.com">>, <<"admin", "x.com">>}
    /\ \A x \in Cells(View(1)) : Ciphertext(View(1), x).k = current_key[1]
    /\ LET o == change_master_password(View(1), "Admin@2024", "Admin@2024")
       IN /\ o.ret = "True"
          /\ Cardinality(Encrypted(View(1), o)) = 2
          /\ Cardinality({Ciphertext(o.s, x).n : x \in Cells(o.s)}
                          \cup {Ciphertext(View(1), x).n : x \in Cells(View(1))}) = 4

---------------------------------------------------------------------------
(* C19 *)

\* Call o has failed in the caller's sight and has written neither file.
FailedWithoutWriting(s, o) ==
    /\ o.ret \in {"False", "raise"}
    /\ o.s.users = s.users
    /\ o.s.passwords = s.passwords

\* C19: while users.json or passwords.json cannot be read, every call of a
\* handler that writes a file it reads (authenticate, add_password,
\* update_password, delete_password, change_master_password) returns a
\* failure or raises, and writes nothing.
C19_ReadFailureIsAnError ==
    \A i \in Inst :
        LET s == View(i)
        IN (Idle(i) /\ (users = Unparseable \/ passwords = Unparseable))
           => /\ \A username \in UserNames, password \in MasterPasswords :
                    users = Unparseable
                        => FailedWithoutWriting(s, authenticate(s, username, password))
              /\ Active(i)
                    => /\ \A a \in AddCalls : \A gen \in Generated :
                             FailedWithoutWriting(s, add_password(s, a[1], a[2], a[3], a[4], gen))
                       /\ \A a \in UpdateCalls : \A gen \in Generated :
                             FailedWithoutWriting(s, update_password(s, a[1], a[2], gen))
                       /\ \A d \in Domains :
                             FailedWithoutWriting(s, delete_password(s, d))
                       /\ \A old_password \in MasterPasswords, new_password \in MasterPasswords :
                             FailedWithoutWriting(s, change_master_password(s, old_password, new_password))

---------------------------------------------------------------------------
(* C20 *)

\* C20: in a session, add_password with the empty string as domain does
\* not return True and stores no entry under the empty domain.
C20_EmptyDomainRejected ==
    \A i \in Inst : \A password \in {"pw1", None} : \A gen \in Generated :
        LET s == View(i)
            o == add_password(s, "", password, None, None, gen)
        IN Active(i)
           => /\ o.ret # "True"
              /\ "" \notin DOMAIN MyEntries(o.s)
              /\ o.s.passwords = s.passwords

---------------------------------------------------------------------------
(* C21 *)

\* C21: in a session, get_all_domains returns the domains stored for the
\* session user, readable under the session key or not, and leaves files,
\* log and session as they are; the list has d after add_password(d), lacks
\* d after delete_password(d), and is the same after update_password.
C21_ListIsTheStoredDomains ==
    \A i \in Inst :
        LET s == View(i)
            o == get_all_domains(s)
            listed(t) == get_all_domains(t).val
        IN Active(i)
           => /\ o.val = DOMAIN MyEntries(s)
              /\ Untouched(s, o)
              /\ \A a \in AddCalls : \A gen \in Generated :
                    listed(add_password(s, a[1], a[2], a[3], a[4], gen).s) = o.val \cup {a[1]}
              /\ \A d \in o.val : listed(delete_password(s, d).s) = o.val \ {d}
              /\ \A d \in Domains \ o.val : listed(delete_password(s, d).s) = o.val
              /\ \A a \in UpdateCalls : \A gen \in Generated :
                    listed(update_password(s, a[1], a[2], gen).s) = o.val

\* A rotation died between its two writes and admin logged in again: a.com
\* does not decrypt under the session key, and it is listed.
C21_Witness ==
    /\ Active(1)
    /\ "a.com" \in DOMAIN MyEntries(View(1))
    /\ Unreadable(MyEntries(View(1))["a.com"], current_key[1])
    /\ get_password(View(1), "a.com").ret = "None"
    /\ get_all_domains(View(1)).val = {"a.com"}

---------------------------------------------------------------------------
(* C22 *)

\* Sequence a is the beginning of sequence b.
IsPrefix(a, b) == Len(a) <= Len(b) /\ SubSeq(b, 1, Len(a)) = a

\* C22: in every step the activity log of before is a prefix of the
\* activity log of after: lines are appended, none is changed, moved or
\* removed.
C22_LogOnlyGrows == [][IsPrefix(log, log')]_vars

\* A log of five lines: the two of the initialisation still first, then a
\* login, a stored password and a logout.
C22_Witness ==
    /\ Len(log) = 5
    /\ SubSeq(log, 1, 2) = InitLog
    /\ log[3].action = <<"Successful login">>
    /\ log[4].action = <<"Added password for domain", "a.com">>
    /\ log[5].action = <<"Logged out">>

---------------------------------------------------------------------------
(* C23 *)

\* C23: of any two lines of the activity log, the one appended later has
\* the strictly greater timestamp.
C23_LogStrictlyTimeOrdered ==
    \A j \in 1..Len(log), k \in 1..Len(log) :
        j < k => log[j].timestamp < log[k].timestamp

---------------------------------------------------------------------------
(* C24 *)

\* Instance i is at the return of generate_password.
Returned(i) == pc[i] = "line402"

\* C24: the password generate_password(length, flags) returns has length
\* characters when length is at least 12 and 12 characters when it is less,
\* whichever classes the flags enable, none included.
C24_GeneratedLength ==
    \A i \in Inst :
        Returned(i)
        => Size(pend[i].password) = (IF pend[i].asked > 12 THEN pend[i].asked ELSE 12)

\* generate_password(-1) with every class disabled has returned twelve
\* characters, and generate_password(13) with one class has returned 13.
C24_Witness ==
    /\ Returned(1)
    /\ \/ pend[1].asked = 0 - 1 /\ pend[1].flags = {} /\ Size(pend[1].password) = 12
       \/ pend[1].asked = 13 /\ pend[1].flags = {"digit"} /\ Size(pend[1].password) = 13

---------------------------------------------------------------------------
(* C25 *)

\* C25: when at least one class is enabled, the password generate_password
\* returns has a character of every enabled class and no character of a
\* disabled class.
C25_GeneratedClasses ==
    \A i \in Inst :
        (Returned(i) /\ pend[i].flags # {})
        => \A c \in Classes :
              /\ c \in pend[i].flags => pend[i].password[c] >= 1
              /\ c \notin pend[i].flags => pend[i].password[c] = 0

\* With upper-case letters and digits enabled, a password of 13 characters
\* with a single digit has been returned.
C25_Witness ==
    /\ Returned(1)
    /\ pend[1].flags = {"upper", "digit"}
    /\ pend[1].password = [c \in Classes |->
                              CASE c = "upper" -> 12 [] c = "digit" -> 1 [] OTHER -> 0]

---------------------------------------------------------------------------
(* C26 *)

\* C26: a change_master_password that returns True leaves the session user
\* with the same domains, and for each of them get_password returns the
\* same password, username, notes and created_at as before.
C26_RotationKeepsMetadata ==
    \A i \in Inst : \A old_password \in MasterPasswords, new_password \in MasterPasswords :
        LET s == View(i)
            o == change_master_password(s, old_password, new_password)
        IN (Active(i) /\ o.ret = "True")
           => /\ DOMAIN MyEntries(o.s) = DOMAIN MyEntries(s)
              /\ \A d \in DOMAIN MyEntries(s) :
                    LET before == get_password(s, d)
                        after == get_password(o.s, d)
                    IN /\ after.ret = "value"
                       /\ after.val[1].password = before.val[1].password
                       /\ after.val[1].username = before.val[1].username
                       /\ after.val[1].notes = before.val[1].notes
                       /\ after.val[1].created_at = before.val[1].created_at

---------------------------------------------------------------------------
(* C27 *)

\* The key derived from the master password and the salt stored for user u.
KeyOf(u) == _derive_key(users[u].password_hash.pw, b64decode(users[u].salt))

\* C27: with one instance, no crash and nobody else writing the files,
\* between two calls every stored entry of every user is encrypted under
\* the key derived from that user's master password and stored salt; the
\* key of a session is that key of its user, and get_password returns a
\* value for every domain get_all_domains lists.
C27_EntriesUnderCurrentKey ==
    \A i \in Inst :
        Idle(i)
        => /\ \A x \in Cells(View(i)) : Ciphertext(View(i), x).k = KeyOf(x[1])
           /\ \A x \in Cells(View(i)) : ~Unreadable(passwords[x[1]][x[2]], KeyOf(x[1]))
           /\ Active(i)
                 => /\ current_key[i] = KeyOf(current_user[i])
                    /\ \A d \in get_all_domains(View(i)).val :
                          get_password(View(i), d).ret = "value"

\* admin stored a.com under the first key and then changed the master
\* password: the entry and the session are under the key of the new salt.
C27_Witness ==
    /\ Active(1)
    /\ LastLine.action = <<"Master password changed successfully">>
    /\ current_key[1] # _derive_key("Admin@2024", b64decode(InitUsers["admin"].salt))
    /\ current_key[1] = KeyOf("admin")
    /\ <<"admin", "a.com">> \in Cells(View(1))
    /\ Ciphertext(View(1), <<"admin", "a.com">>).k = current_key[1]

---------------------------------------------------------------------------
(* C28 *)

\* C28: when change_master_password(old, new) returns True and new differs
\* from old, authenticate(user, old) returns False and authenticate(user,
\* new) returns True, both right after the change and after a logout.
C28_OldPasswordNoLongerAccepted ==
    \A i \in Inst : \A old_password \in MasterPasswords, new_password \in MasterPasswords :
        LET s == View(i)
            o == change_master_password(s, old_password, new_password)
            out == logout(o.s)
        IN (Idle(i) /\ o.ret = "True" /\ new_password # old_password)
           => /\ authenticate(o.s, s.user, old_password).ret = "False"
              /\ authenticate(o.s, s.user, new_password).ret = "True"
              /\ authenticate(out.s, s.user, old_password).ret = "False"
              /\ authenticate(out.s, s.user, new_password).ret = "True"

\* admin has changed the master password from "Admin@2024" to "New@2025":
\* the former is refused, the latter accepted after a logout.
C28_Witness ==
    /\ LastLine = LogLine(LastLine.timestamp, "admin", <<"Master password changed successfully">>)
    /\ _verify_password("New@2025", users["admin"].password_hash)
    /\ authenticate(View(1), "admin", "Admin@2024").ret = "False"
    /\ authenticate(logout(View(1)).s, "admin", "New@2025").ret = "True"

---------------------------------------------------------------------------
(* C29 *)

\* The (user, domain) pairs of the dictionary an add_password holds in
\* memory between its read and its write.
HeldCells(held) == Cells([passwords |-> held.passwords])

\* C29: the write of an add_password that another instance has overtaken
\* returns True and leaves in passwords.json exactly the dictionary read
\* earlier plus its own entry: every entry another instance has stored
\* since that read, with success, is absent from the file.
C29_StaleWriteLosesUpdates ==
    \A i \in Inst2 :
        pc[i] = "line446"
        => LET o == add_password_write(View(i), pend[i])
           IN /\ o.ret = "True"
              /\ o.s.passwords = pend[i].passwords
              /\ \A x \in Cells(View(i)) \ HeldCells(pend[i]) : x \notin Cells(o.s)

\* Instance 2 has read the file for its add_password; instance 1 has then
\* added an entry and got True; the write of instance 2 leaves a file
\* without that entry.
C29_Witness ==
    /\ pc[2] = "line446"
    /\ pc[1] = "idle"
    /\ LastLine.action[1] = "Added password for domain"
    /\ LastLine.username = current_user[1]
    /\ \E x \in Cells(View(2)) :
          /\ x[1] = current_user[1]
          /\ x[2] = LastLine.action[2]
          /\ x \notin HeldCells(pend[2])
          /\ x \notin Cells(add_password_write(View(2), pend[2]).s)

---------------------------------------------------------------------------
(* C30 *)

\* C30: between two calls an instance has a session user exactly when it
\* has a session key, and the key of a session is the key derived from the
\* master password and the stored salt of the session user, not that of any
\* other user of the store.
C30_SessionKeyBelongsToUser ==
    \A i \in Inst :
        Idle(i)
        => /\ (current_user[i] = None) <=> (current_key[i] = NoKey)
           /\ current_user[i] # None
                 => /\ current_user[i] \in DOMAIN users
                    /\ current_key[i] = KeyOf(current_user[i])
                    /\ \A u \in DOMAIN users \ {current_user[i]} : current_key[i] # KeyOf(u)

\* admin logged in and, without a logout in between, testuser logged in on
\* the same instance: the key is the one of testuser's password and salt.
C30_Witness ==
    /\ Len(log) >= 4
    /\ log[3] = LogLine(0, "admin", <<"Successful login">>)
    /\ log[4] = LogLine(0, "testuser", <<"Successful login">>)
    /\ \A j \in 1..Len(log) : log[j].action # <<"Logged out">>
    /\ current_user[1] = "testuser"
    /\ current_key[1] = _derive_key("Test@2024", b64decode(InitUsers["testuser"].salt))

---------------------------------------------------------------------------
(* C31 *)

\* The limits a caller of get_activity_logs may give, past the longest log.
Limits == 0..(MaxLog + 1)

\* C31: for every limit >= 0, get_activity_logs(limit) returns the last
\* min(limit, n) lines of the n lines of the log, in their order: at most
\* limit lines, and none when limit is 0.
C31_LastLimitLines ==
    \A i \in Inst : \A limit \in Limits :
        LET n == Len(log)
            m == IF limit < n THEN limit ELSE n
            o == get_activity_logs(View(i), limit)
        IN /\ Len(o.val) <= limit
           /\ o.val = SubSeq(log, n - m + 1, n)

---------------------------------------------------------------------------
(* C32 *)

\* The lines of the log that calls of authenticate wrote: authenticate
\* writes one line at each call, and no other handler writes these lines.
AuthenticateLines ==
    {j \in 1..Len(log) :
        log[j].action \in {<<"Successful login">>,
                           <<"Failed login attempt - user not found">>,
                           <<"Failed login attempt - incorrect password">>}}

SuccessLines == {j \in AuthenticateLines : log[j].action = <<"Successful login">>}

\* C32: in a run of the console, authenticate is called at most three
\* times and never again after a call that succeeded; run has returned
\* from line 300 exactly when three calls were made and all failed; the
\* menu loop is entered only after a call that succeeded, with a session;
\* and as long as no call has succeeded the console is outside the menu
\* loop, the stores are as they were and the log holds nothing but the
\* lines of the failed attempts.
C32_MenuOnlyAfterLogin ==
    \A i \in Inst :
        /\ Cardinality(AuthenticateLines) <= max_attempts
        /\ \A j \in SuccessLines : \A k \in AuthenticateLines : k <= j
        /\ pc[i] = "line300" <=> /\ Cardinality(AuthenticateLines) = max_attempts
                                 /\ SuccessLines = {}
        /\ pc[i] = "line303" => /\ SuccessLines # {}
                                /\ current_user[i] # None
                                /\ current_key[i] # NoKey
        /\ SuccessLines = {} => /\ pc[i] \in {"idle", "line69", "line300"}
                                /\ current_user[i] = None
                                /\ current_key[i] = NoKey
                                /\ users = InitUsers
                                /\ passwords = EmptyMap
                                /\ \A j \in (Len(InitLog) + 1)..Len(log) : j \in AuthenticateLines

\* run has returned after three failed attempts.
C32_Witness ==
    /\ pc[1] = "line300"
    /\ Cardinality(AuthenticateLines) = max_attempts
    /\ SuccessLines = {}

===========================================================================
